---- MODULE Spec2Model ----
(***************************************************************************)
(* A model of @geoql/maplibre-gl-snow (src/src/index.ts): the SnowGPU      *)
(* particle system and the MaplibreSnowLayer custom layer that drives it.  *)
(*                                                                         *)
(* Three specifications share the module:                                  *)
(*   Spec        the layer's life cycle: onAdd, the asynchronous init,     *)
(*               render, the setters, the resize observer, onRemove;       *)
(*   SpecKernel  the Spawn and Update compute kernels on particle data;    *)
(*   SpecProj    the projection of a flake to normalized device            *)
(*               coordinates.                                              *)
(*                                                                         *)
(* Numbers.  The source computes in floating point.  The model computes    *)
(* in fixed point:                                                         *)
(*   - a 0..1 option (density, intensity, opacity, fogOpacity) is an       *)
(*     integer number of 1/Scale, so 0.5 is Scale \div 2;                  *)
(*   - a mercator length is an integer number of 1/Sub of the pixel of     *)
(*     the deepest zoom modelled (MaxZoom): one css pixel at zoom z is     *)
(*     Sub * 2^(MaxZoom - z) such units;                                   *)
(*   - frames per second are an integer number of 1/FpsScale.              *)
(* A division that is not exact rounds down.                               *)
(***************************************************************************)
EXTENDS Integers, Sequences, FiniteSets, TLC

----------------------------------------------------------------------------
(* Bounds of the model *)

\* calls the host and the page make in a run: onAdd, render, a setter, a
\* change of the container's size (the settling of init and onRemove come on
\* top)
MaxCalls == 4
\* zoom levels are 0..MaxZoom
MaxZoom == 1
\* frames SpecKernel runs the kernels for
MaxKFrames == 2

----------------------------------------------------------------------------
(* Program constants *)

DEFAULT_PARTICLE_COUNT == 100000
MIN_PARTICLE_COUNT == 10000
MAX_PARTICLE_COUNT == 200000

----------------------------------------------------------------------------
(* Fixed point *)

\* a 0..1 option v is stored as v * Scale
Scale == 3 * 100
\* a length of one css pixel at zoom MaxZoom is stored as Sub
Sub == 3 * 100
\* f frames per second are stored as f * FpsScale
FpsScale == 2 * 5

Max(a, b) == IF a >= b THEN a ELSE b
Min(a, b) == IF a <= b THEN a ELSE b

\* Math.round(n / d) for d > 0: the nearest integer, a half rounds up
Round(n, d) == (2 * n + d) \div (2 * d)

RECURSIVE Pow2(_)
Pow2(k) == IF k <= 0 THEN 1 ELSE 2 * Pow2(k - 1)

\* Math.max(0, Math.min(1, v)) on a 0..1 option
Clamp01(v) == Max(0, Min(Scale, v))

\* 1 / (512 * Math.pow(2, zoom)), in units of 1/Sub pixel of zoom MaxZoom,
\* per css pixel
pxToMerc(zoom) == Sub * Pow2(MaxZoom - zoom)

\* Math.sin and Math.cos of an azimuth in degrees, a multiple of 90
Sin(deg) == CASE deg % 360 = 0 -> 0 [] deg % 360 = 90 -> 1
              [] deg % 360 = 180 -> 0 [] deg % 360 = 270 -> -1
Cos(deg) == CASE deg % 360 = 0 -> 1 [] deg % 360 = 90 -> 0
              [] deg % 360 = 180 -> -1 [] deg % 360 = 270 -> 0

\* the mercator world is 512 * 2^MaxZoom pixels wide
World == 512 * Pow2(MaxZoom) * Sub

\* lngLatToMercator, for the longitudes and latitudes of Centers: latitude 0
\* is the equator (y = 0.5); latitudes 85 and -85 stand for the edges of the
\* web-mercator square, where y is 0 and 1
lngLatToMercator(lng, lat) ==
  [x |-> ((lng + 180) * World) \div 360,
   y |-> CASE lat = 0 -> World \div 2 [] lat > 0 -> 0 [] lat < 0 -> World]

----------------------------------------------------------------------------
(* class SnowGPU.  An object is a record; a method is an operator from the  *)
(* object (and the arguments) to the object after the call.                *)

Null == [null |-> TRUE]

\* The fields of a SnowGPU after its field initializers have run.  The model
\* adds to the source's fields:
\*   stage            where the promise of init() stands
\*   sceneMeshes      the snow meshes that are children of the scene
\*   disposedMeshes   the snow meshes whose geometry and material are disposed
\*   fogDisposed, rendererDisposed, size
\*   calls            the calls made on the renderer by the running handler
NewSnowGPU ==
  [stage |-> "new",
   renderer |-> FALSE, scene |-> FALSE, camera |-> FALSE,
   particleCount |-> DEFAULT_PARTICLE_COUNT,
   posBuffer |-> Null, velBuffer |-> Null, snowMesh |-> Null,
   computeInit |-> Null, computeUpdate |-> Null,
   uCenter |-> [x |-> World \div 2, y |-> World \div 2],
   uHalfSpan |-> World \div 200,
   uAltSpan |-> World \div 400,
   uRadius |-> 0,
   uFallSpeed |-> 0, uWindX |-> 0, uWindY |-> 0,
   uOpacity |-> (8 * Scale) \div 10,
   fogMesh |-> Null,
   uFogOpacity |-> (8 * Scale) \div 100,
   fogEnabled |-> TRUE,
   initialized |-> FALSE,
   initRan |-> FALSE,
   sceneMeshes |-> {}, disposedMeshes |-> {},
   fogDisposed |-> FALSE, rendererDisposed |-> FALSE,
   size |-> Null,
   calls |-> << >>]

\* the values of the uniforms the kernels and the materials read
Uniforms(s) ==
  [center |-> s.uCenter, halfSpan |-> s.uHalfSpan, altSpan |-> s.uAltSpan,
   radius |-> s.uRadius, fallSpeed |-> s.uFallSpeed,
   windX |-> s.uWindX, windY |-> s.uWindY,
   opacity |-> s.uOpacity, fogOpacity |-> s.uFogOpacity,
   fogVisible |-> IF s.fogMesh = Null THEN FALSE ELSE s.fogMesh.visible]

\* a call on the renderer: compute(computeInit), compute(computeUpdate) or
\* render(scene, camera), with the particle buffers it reads or writes (0 for
\* none), the number of particles, and the uniforms as they are when it is
\* issued
Call(op, s, buf, n) == [op |-> op, buf |-> buf, n |-> n, u |-> Uniforms(s)]

\* _buildParticleSystem; id names the buffers that instancedArray() allocates
BuildParticleSystem(s, id) ==
  IF ~s.renderer \/ ~s.scene THEN s
  ELSE LET N == s.particleCount IN
    [s EXCEPT !.posBuffer = [id |-> id, len |-> N],
              !.velBuffer = [id |-> id, len |-> N],
              !.computeInit = [buf |-> id, count |-> N],
              !.computeUpdate = [buf |-> id, count |-> N],
              !.snowMesh = [id |-> id, count |-> N],
              !.sceneMeshes = @ \cup {id}]

\* _buildFogOverlay
BuildFogOverlay(s) ==
  IF ~s.scene THEN s
  ELSE [s EXCEPT !.fogMesh = [visible |-> s.fogEnabled]]

\* frame(projMatrix)
Frame(s) ==
  IF ~s.renderer \/ ~s.scene \/ ~s.camera \/ ~s.initialized THEN s
  ELSE LET s1 == IF s.computeUpdate # Null
                 THEN [s EXCEPT !.calls = Append(@,
                         Call("computeUpdate", s, s.computeUpdate.buf, s.computeUpdate.count))]
                 ELSE s
       IN [s1 EXCEPT !.calls = Append(@,
             Call("render", s1,
                  IF s1.snowMesh # Null /\ s1.snowMesh.id \in s1.sceneMeshes
                  THEN s1.snowMesh.id ELSE 0,
                  IF s1.snowMesh # Null /\ s1.snowMesh.id \in s1.sceneMeshes
                  THEN s1.snowMesh.count ELSE 0))]

\* a runInit that does not look at the latch
RunInitUnlatched(s) ==
  IF ~s.renderer \/ s.computeInit = Null THEN s
  ELSE [s EXCEPT !.calls = Append(@,
          Call("computeInit", s, s.computeInit.buf, s.computeInit.count)),
                 !.initRan = TRUE]

\* runInit()
RunInit(s) ==
  IF s.initRan \/ ~s.renderer \/ s.computeInit = Null THEN s
  ELSE [s EXCEPT !.calls = Append(@,
          Call("computeInit", s, s.computeInit.buf, s.computeInit.count)),
                 !.initRan = TRUE]

\* an updateSpatial whose spawn box is as tall as it is wide
UpdateSpatialTallBox(s, mercX, mercY, zoom, canvasCSSWidth) ==
  LET halfSpan == (canvasCSSWidth * pxToMerc(zoom) * 12) \div 10
  IN [s EXCEPT !.uCenter = [x |-> mercX, y |-> mercY],
               !.uHalfSpan = halfSpan,
               !.uAltSpan = 2 * halfSpan]

\* updateSpatial(mercX, mercY, zoom, canvasCSSWidth)
UpdateSpatial(s, mercX, mercY, zoom, canvasCSSWidth) ==
  LET halfSpan == (canvasCSSWidth * pxToMerc(zoom) * 12) \div 10
      altSpan == halfSpan \div 2
  IN [s EXCEPT !.uCenter = [x |-> mercX, y |-> mercY],
               !.uHalfSpan = halfSpan,
               !.uAltSpan = altSpan]

\* updateFlakeRadius(flakeSizePx, zoom, dpr)
UpdateFlakeRadius(s, flakeSizePx, zoom, dpr) ==
  [s EXCEPT !.uRadius = (flakeSizePx * pxToMerc(zoom) * dpr) \div 2]

\* an updateWind that takes the cosine for x and the sine for y
UpdateWindSwapped(s, azimuthDeg, speedPxPerSec, zoom, fps) ==
  LET mercSpeedPerFrame == (speedPxPerSec * pxToMerc(zoom) * FpsScale) \div fps
  IN [s EXCEPT !.uWindX = Cos(azimuthDeg) * mercSpeedPerFrame,
               !.uWindY = Sin(azimuthDeg) * mercSpeedPerFrame]

\* updateWind(azimuthDeg, speedPxPerSec, zoom, fps)
UpdateWind(s, azimuthDeg, speedPxPerSec, zoom, fps) ==
  LET mercSpeedPerFrame == (speedPxPerSec * pxToMerc(zoom) * FpsScale) \div fps
  IN [s EXCEPT !.uWindX = Sin(azimuthDeg) * mercSpeedPerFrame,
               !.uWindY = Cos(azimuthDeg) * mercSpeedPerFrame]

\* updateFallSpeed(intensity, zoom, fps)
UpdateFallSpeed(s, intensity, zoom, fps) ==
  [s EXCEPT !.uFallSpeed =
     (40 * intensity * pxToMerc(zoom) * FpsScale) \div (Scale * fps)]

\* a count that takes the density as it comes, unclamped
CountUnclamped(density) ==
  Round(MIN_PARTICLE_COUNT * Scale
          + density * (MAX_PARTICLE_COUNT - MIN_PARTICLE_COUNT),
        Scale)

\* the particle count setDensity maps a density to
CountFor(density) ==
  Round(MIN_PARTICLE_COUNT * Scale
          + Clamp01(density) * (MAX_PARTICLE_COUNT - MIN_PARTICLE_COUNT),
        Scale)

\* a rebuild that leaves the old mesh in the scene, undisposed
RebuildKeepingMesh(s, id) ==
  IF ~s.scene THEN s
  ELSE BuildParticleSystem([s EXCEPT !.initRan = FALSE], id)

\* a rebuild that leaves _initRan as it is
RebuildParticlesLatched(s, id) ==
  IF ~s.scene THEN s
  ELSE LET s1 == IF s.snowMesh # Null
                 THEN [s EXCEPT !.sceneMeshes = @ \ {s.snowMesh.id},
                                !.disposedMeshes = @ \cup {s.snowMesh.id}]
                 ELSE s
       IN BuildParticleSystem(s1, id)

\* _rebuildParticles()
RebuildParticles(s, id) ==
  IF ~s.scene THEN s
  ELSE LET s1 == IF s.snowMesh # Null
                 THEN [s EXCEPT !.sceneMeshes = @ \ {s.snowMesh.id},
                                !.disposedMeshes = @ \cup {s.snowMesh.id}]
                 ELSE s
           s2 == [s1 EXCEPT !.initRan = FALSE]
       IN BuildParticleSystem(s2, id)

\* a setDensity that stores the new count and rebuilds nothing
GpuSetDensityCountOnly(s, density, id) ==
  [s EXCEPT !.particleCount = CountFor(density)]

\* setDensity(density) of SnowGPU
GpuSetDensity(s, density, id) ==
  LET newCount == CountFor(density) IN
  IF newCount = s.particleCount THEN s
  ELSE RebuildParticles([s EXCEPT !.particleCount = newCount], id)

\* setOpacity(value) of SnowGPU
GpuSetOpacity(s, value) == [s EXCEPT !.uOpacity = Clamp01(value)]

\* setFog(enabled) of SnowGPU
GpuSetFog(s, enabled) ==
  [s EXCEPT !.fogEnabled = enabled,
            !.fogMesh = IF @ # Null THEN [visible |-> enabled] ELSE @]

\* setFogOpacity(value) of SnowGPU
GpuSetFogOpacity(s, value) == [s EXCEPT !.uFogOpacity = Clamp01(value)]

\* resize(cssWidth, cssHeight)
GpuResize(s, cssWidth, cssHeight) ==
  IF ~s.renderer THEN s
  ELSE [s EXCEPT !.size = [w |-> cssWidth, h |-> cssHeight]]

\* a dispose that lets go of the meshes and keeps the renderer
GpuDisposeMeshesOnly(s) ==
  LET s1 == IF s.snowMesh # Null
            THEN [s EXCEPT !.disposedMeshes = @ \cup {s.snowMesh.id}] ELSE s
  IN IF s1.fogMesh # Null THEN [s1 EXCEPT !.fogDisposed = TRUE] ELSE s1

\* dispose()
GpuDispose(s) ==
  LET s1 == IF s.snowMesh # Null
            THEN [s EXCEPT !.disposedMeshes = @ \cup {s.snowMesh.id}] ELSE s
      s2 == IF s1.fogMesh # Null THEN [s1 EXCEPT !.fogDisposed = TRUE] ELSE s1
  IN IF s2.renderer THEN [s2 EXCEPT !.rendererDisposed = TRUE] ELSE s2

\* a ready getter that answers true whatever init() did
ReadyUnguarded(s) == TRUE

\* a ready getter that answers true as soon as the renderer is constructed
ReadyOnceConstructed(s) == s.renderer

\* get ready()
Ready(s) == s.initialized

----------------------------------------------------------------------------
(* The inputs *)

\* the options of MaplibreSnowOptions the constructor falls back to
DefaultOptions ==
  [density |-> Scale \div 2, intensity |-> Scale \div 2, flakeSize |-> 4,
   opacity |-> (8 * Scale) \div 10, direction |-> <<0, 50>>, fog |-> TRUE,
   fogOpacity |-> (8 * Scale) \div 100]

\* options a caller may pass instead; the 0..1 options are out of range
ExtremeOptions ==
  [density |-> (3 * Scale) \div 2, intensity |-> 2 * Scale, flakeSize |-> 6,
   opacity |-> -Scale, direction |-> <<90, 80>>, fog |-> FALSE,
   fogOpacity |-> 2 * Scale]

OptionSets == {DefaultOptions, ExtremeOptions}

DensityVals == {-(Scale \div 2), (2 * Scale) \div 3, 2 * Scale}
IntensityVals == {2 * Scale}
FlakeSizeVals == {2}
OpacityVals == {2 * Scale}
DirectionVals == {<<180, 20>>}
FogOpacityVals == {-Scale}

\* what a render call reads from the host: map.getZoom(), map.getCenter(),
\* and the milliseconds of performance.now() since the last render call: 1,
\* which takes the estimate of the frame rate above 120 at once, or 0
Snapshots ==
  {[zoom |-> 0, lng |-> 0, lat |-> 0, dt |-> 1],
   [zoom |-> MaxZoom, lng |-> 90, lat |-> 85, dt |-> 0]}

\* performance.now() at the last render call that read it.  Only differences
\* of times are observable, so the model puts the origin of the clock where
\* that call is at Epoch
Epoch == 10 * 100

\* clientWidth and clientHeight of the map's container, and
\* window.devicePixelRatio of the display it is on
Sizes == {[w |-> 100, h |-> 50, dpr |-> 1], [w |-> 200, h |-> 100, dpr |-> 2]}

\* the identities of the SnowGPU objects: onAdd constructs one per call
GpuIds == 1 .. MaxCalls

----------------------------------------------------------------------------
(* State *)

VARIABLES
  hasGpu,         \* navigator.gpu is defined
  container,      \* the size of the map's container and the devicePixelRatio
  domOverlays,    \* the overlay divs that are children of the container
  gpus,           \* the SnowGPU objects, by identity
  nGpu,           \* SnowGPU objects constructed so far
  map,            \* MaplibreSnowLayer.map is not null
  gpu,            \* MaplibreSnowLayer.gpu: an identity, 0 for null
  overlayDiv,     \* MaplibreSnowLayer.overlayDiv: an identity, 0 for null
  overlayCanvas,  \* MaplibreSnowLayer.overlayCanvas: its size, or Null
  observing,      \* the layer's ResizeObserver observes the container
  opts,           \* _density, _intensity, _flakeSize, _opacity, _direction, _fog, _fogOpacity
  lastFrameTime,  \* _lastFrameTime: 0, or Epoch once a frame has read the clock
  fps,            \* _fps
  repaint,        \* the host has a repaint pending (map.triggerRepaint())
  nextBuf,        \* particle buffers allocated so far
  spawns,         \* per particle buffer, the dispatches of computeInit on it
  lastFrame,      \* the last render call: this.gpu and where its init() stood, and
                  \* the calls render made, in order
  lastInput,      \* what the last render call that passed the guard read
  calls,          \* calls the host and the page have made
  thenError,      \* the callback of init().then raised a TypeError
  kernel,         \* SpecKernel: one particle under the Spawn and Update kernels
  flake,          \* SpecProj: one flake as the vertex stage projects it
  webgl           \* SpecGL: the WebGL variant of the layer and the host's GL context

lifeVars == <<hasGpu, container, domOverlays, gpus, nGpu, map, gpu, overlayDiv,
              overlayCanvas, observing, opts, lastFrameTime, fps, repaint, nextBuf,
              spawns, lastFrame, lastInput, calls, thenError>>

vars == <<lifeVars, kernel, flake, webgl>>

hostVars == <<hasGpu, container, domOverlays>>
layerVars == <<map, gpu, overlayDiv, overlayCanvas, observing>>
timeVars == <<lastFrameTime, fps>>
frameVars == <<lastFrame, lastInput, repaint>>
bufVars == <<nextBuf, spawns>>

\* the buffers a SnowGPU refers to
BufOf(s) == IF s.posBuffer = Null THEN 0 ELSE s.posBuffer.id

\* the particle buffers some SnowGPU refers to, and those none refers to
Referenced == {BufOf(gpus[g]) : g \in GpuIds} \ {0}
Discarded == (1 .. nextBuf) \ Referenced

\* the layer after its constructor, and a host that has not added it to a map
LayerInit ==
  /\ hasGpu \in BOOLEAN
  /\ container = [w |-> 100, h |-> 50, dpr |-> 1]
  /\ domOverlays = {}
  /\ gpus = [g \in GpuIds |-> NewSnowGPU]
  /\ nGpu = 0
  /\ map = FALSE
  /\ gpu = 0
  /\ overlayDiv = 0
  /\ overlayCanvas = Null
  /\ observing = FALSE
  /\ opts \in OptionSets
  /\ lastFrameTime = 0
  /\ fps = 60 * FpsScale
  /\ repaint = FALSE
  /\ nextBuf = 0
  /\ spawns = << >>
  /\ lastFrame = Null
  /\ lastInput = Null
  /\ calls = 0
  /\ thenError = FALSE

Init ==
  /\ LayerInit
  /\ kernel = Null
  /\ flake = Null
  /\ webgl = Null

----------------------------------------------------------------------------
(* class MaplibreSnowLayer *)

\* onAdd(map, gl).  The host calls it when the layer is added to a map, so
\* not while the layer is on one.  init() runs up to its first await inside
\* the call: without navigator.gpu it returns false at once, and the callback
\* of then(), which runs later, returns on !ok without touching anything.
OnAdd ==
  /\ ~map
  /\ calls < MaxCalls
  /\ calls' = calls + 1
  /\ LET g == nGpu + 1 IN
     /\ nGpu' = g
     /\ map' = TRUE
     /\ overlayDiv' = g
     /\ domOverlays' = domOverlays \cup {g}
     /\ overlayCanvas' = [w |-> container.w * container.dpr, h |-> container.h * container.dpr]
     /\ observing' = TRUE
     /\ gpu' = g
     /\ gpus' = [gpus EXCEPT ![g] =
                   IF ~hasGpu THEN [NewSnowGPU EXCEPT !.stage = "false"]
                   ELSE [NewSnowGPU EXCEPT !.renderer = TRUE, !.stage = "pending"]]
  /\ UNCHANGED <<hasGpu, container, opts, timeVars, frameVars, bufVars, thenError,
                 kernel, flake, webgl>>

\* a callback that applies the density and nothing else
ThenCallbackDensityOnly(t, id) == GpuSetDensity(t, opts.density, id)

\* the callback onAdd passes to init().then, for ok = true, on the SnowGPU
\* that this.gpu refers to when the callback runs
ThenCallback(t, id) ==
  GpuSetFogOpacity(
    GpuSetFog(
      GpuSetOpacity(
        GpuSetDensity(t, opts.density, id),
        opts.opacity),
      opts.fog),
    opts.fogOpacity)

\* the rest of init() once renderer.init() of SnowGPU g has settled
\* (resolved: rejected = FALSE), with the buffers named id if it allocates
InitRest(s, rejected, id) ==
  IF rejected THEN [s EXCEPT !.stage = "false"]
  ELSE LET s1 == [s EXCEPT !.scene = TRUE, !.camera = TRUE]
           s2 == BuildParticleSystem(s1, id)
           s3 == BuildFogOverlay(s2)
       IN [s3 EXCEPT !.initialized = TRUE, !.stage = "true"]

\* renderer.init() of SnowGPU g settles: init() runs to its end and its
\* promise resolves, which queues the callback of then().  The callback is
\* the next job to run: nothing of the host or of the page runs in between.
InitSettle(g, rejected) ==
  /\ gpus[g].stage = "pending"
  /\ LET s == InitRest(gpus[g], rejected, nextBuf + 1)
         gs == [gpus EXCEPT ![g] = s]
         n1 == IF BufOf(s) = nextBuf + 1 THEN nextBuf + 1 ELSE nextBuf
     IN IF rejected
        THEN /\ gpus' = gs
             /\ UNCHANGED <<bufVars, thenError>>
        ELSE IF gpu = 0
        THEN /\ gpus' = gs
             /\ thenError' = TRUE
             /\ nextBuf' = n1
             /\ spawns' = [b \in 1 .. n1 |-> IF b <= nextBuf THEN spawns[b] ELSE 0]
        ELSE LET t == ThenCallback(gs[gpu], n1 + 1)
                 n2 == IF BufOf(t) = n1 + 1 THEN n1 + 1 ELSE n1
             IN /\ gpus' = [gs EXCEPT ![gpu] = t]
                /\ nextBuf' = n2
                /\ spawns' = [b \in 1 .. n2 |-> IF b <= nextBuf THEN spawns[b] ELSE 0]
                /\ UNCHANGED thenError
  /\ UNCHANGED <<hostVars, nGpu, layerVars, opts, timeVars, frameVars, calls,
                 kernel, flake, webgl>>

\* a clamp that lets the estimate through above 120
ClampFpsBelowOnly(f) == Max(10 * FpsScale, f)

\* the frames per second render derives from performance.now()
NextFps(now, last) ==
  LET dt == now - last IN
  IF last > 0 /\ dt > 0
  THEN (fps * 9 + (1000 * FpsScale) \div dt) \div 10
  ELSE fps

ClampFps(f) == Max(10 * FpsScale, Min(120 * FpsScale, f))

\* the calls of render with runInit moved ahead of the uniform updates
RenderGpuSpawnFirst(s, o, zoom, merc, dpr, cssW, f) ==
  Frame(
    UpdateFallSpeed(
      UpdateWind(
        UpdateFlakeRadius(
          UpdateSpatial(RunInit(s), merc.x, merc.y, zoom, cssW),
          o.flakeSize, zoom, dpr),
        o.direction[1], o.direction[2], zoom, f),
      o.intensity, zoom, f))

\* the calls of render on the SnowGPU, from updateSpatial to frame
RenderGpu(s, o, zoom, merc, dpr, cssW, f) ==
  Frame(
    RunInit(
      UpdateFallSpeed(
        UpdateWind(
          UpdateFlakeRadius(
            UpdateSpatial(s, merc.x, merc.y, zoom, cssW),
            o.flakeSize, zoom, dpr),
          o.direction[1], o.direction[2], zoom, f),
        o.intensity, zoom, f)))

\* render(gl, args).  The host calls it for every frame it paints, which
\* uses up the repaint that was pending.
Render(snap) ==
  /\ calls < MaxCalls
  /\ calls' = calls + 1
  /\ IF gpu = 0 \/ ~Ready(gpus[gpu]) \/ ~map
     THEN /\ lastFrame' = [gpu |-> gpu,
                          stage |-> IF gpu = 0 THEN "none" ELSE gpus[gpu].stage,
                          log |-> << >>]
          /\ repaint' = FALSE
          /\ UNCHANGED <<gpus, timeVars, spawns, lastInput>>
     ELSE LET now == Epoch + snap.dt
              last == IF lastFrameTime = 0 THEN 0 ELSE Epoch
              f == ClampFps(NextFps(now, last))
              merc == lngLatToMercator(snap.lng, snap.lat)
          IN \E s \in {RenderGpu(gpus[gpu], opts, snap.zoom, merc, container.dpr,
                             container.w, f)} :
             /\ fps' = NextFps(now, last)
             /\ lastFrameTime' = Epoch
             /\ gpus' = [gpus EXCEPT ![gpu] = [s EXCEPT !.calls = << >>]]
             /\ lastFrame' = [gpu |-> gpu, stage |-> gpus[gpu].stage,
                              log |-> Append(s.calls,
                                        [op |-> "triggerRepaint", buf |-> 0, n |-> 0,
                                         u |-> Uniforms(s)])]
             /\ lastInput' = [zoom |-> snap.zoom, merc |-> merc, dpr |-> container.dpr,
                              cssW |-> container.w, fps |-> f, opts |-> opts]
             /\ spawns' = [b \in 1 .. nextBuf |->
                             spawns[b] + Cardinality({i \in 1 .. Len(s.calls) :
                                s.calls[i].op = "computeInit" /\ s.calls[i].buf = b})]
             /\ repaint' = TRUE
  /\ UNCHANGED <<hostVars, nGpu, layerVars, opts, nextBuf, thenError, kernel, flake, webgl>>

\* onRemove(map, gl).  The host calls it when the layer leaves the map.
OnRemove ==
  /\ map
  /\ observing' = FALSE
  /\ gpus' = IF gpu # 0 THEN [gpus EXCEPT ![gpu] = GpuDispose(@)] ELSE gpus
  /\ domOverlays' = IF overlayDiv # 0 THEN domOverlays \ {overlayDiv} ELSE domOverlays
  /\ map' = FALSE
  /\ overlayDiv' = 0
  /\ overlayCanvas' = Null
  /\ gpu' = 0
  /\ UNCHANGED <<hasGpu, container, nGpu, opts, timeVars, frameVars, bufVars,
                 calls, thenError, kernel, flake, webgl>>

\* the callback of the ResizeObserver, when the container takes size sz
ResizeCallback(sz) ==
  /\ sz # container
  /\ calls < MaxCalls
  /\ calls' = calls + 1
  /\ container' = sz
  /\ IF ~observing \/ overlayCanvas = Null \/ ~map
     THEN UNCHANGED <<overlayCanvas, gpus>>
     ELSE /\ overlayCanvas' = [w |-> sz.w * sz.dpr, h |-> sz.h * sz.dpr]
          /\ gpus' = IF gpu # 0 THEN [gpus EXCEPT ![gpu] = GpuResize(@, sz.w, sz.h)]
                     ELSE gpus
  /\ UNCHANGED <<hasGpu, domOverlays, nGpu, map, gpu, overlayDiv, observing,
                 opts, timeVars, frameVars, bufVars, thenError, kernel, flake, webgl>>

\* what the setters share: one more call, and nothing of the host changes
Setter ==
  /\ calls < MaxCalls
  /\ calls' = calls + 1
  /\ UNCHANGED <<hostVars, nGpu, layerVars, timeVars, frameVars, thenError,
                 kernel, flake, webgl>>

\* setDensity(density)
SetDensity(density) ==
  /\ Setter
  /\ opts' = [opts EXCEPT !.density = density]
  /\ IF gpu = 0 THEN UNCHANGED <<gpus, bufVars>>
     ELSE LET t == GpuSetDensity(gpus[gpu], density, nextBuf + 1)
              n1 == IF BufOf(t) = nextBuf + 1 THEN nextBuf + 1 ELSE nextBuf
          IN /\ gpus' = [gpus EXCEPT ![gpu] = t]
             /\ nextBuf' = n1
             /\ spawns' = [b \in 1 .. n1 |-> IF b <= nextBuf THEN spawns[b] ELSE 0]

\* setIntensity(intensity)
SetIntensity(intensity) ==
  /\ Setter
  /\ opts' = [opts EXCEPT !.intensity = Clamp01(intensity)]
  /\ UNCHANGED <<gpus, bufVars>>

\* setFlakeSize(size)
SetFlakeSize(size) ==
  /\ Setter
  /\ opts' = [opts EXCEPT !.flakeSize = size]
  /\ UNCHANGED <<gpus, bufVars>>

\* setOpacity(opacity)
SetOpacity(opacity) ==
  /\ Setter
  /\ opts' = [opts EXCEPT !.opacity = opacity]
  /\ gpus' = IF gpu # 0 THEN [gpus EXCEPT ![gpu] = GpuSetOpacity(@, opacity)] ELSE gpus
  /\ UNCHANGED bufVars

\* setDirection(direction)
SetDirection(direction) ==
  /\ Setter
  /\ opts' = [opts EXCEPT !.direction = direction]
  /\ UNCHANGED <<gpus, bufVars>>

\* setFog(enabled)
SetFog(enabled) ==
  /\ Setter
  /\ opts' = [opts EXCEPT !.fog = enabled]
  /\ gpus' = IF gpu # 0 THEN [gpus EXCEPT ![gpu] = GpuSetFog(@, enabled)] ELSE gpus
  /\ UNCHANGED bufVars

\* setFogOpacity(opacity)
SetFogOpacity(opacity) ==
  /\ Setter
  /\ opts' = [opts EXCEPT !.fogOpacity = opacity]
  /\ gpus' = IF gpu # 0 THEN [gpus EXCEPT ![gpu] = GpuSetFogOpacity(@, opacity)] ELSE gpus
  /\ UNCHANGED bufVars

Next ==
  \/ OnAdd
  \/ \E g \in GpuIds, rejected \in BOOLEAN : InitSettle(g, rejected)
  \/ \E snap \in Snapshots : Render(snap)
  \/ OnRemove
  \/ \E sz \in Sizes : ResizeCallback(sz)
  \/ \E d \in DensityVals : SetDensity(d)
  \/ \E v \in IntensityVals : SetIntensity(v)
  \/ \E v \in FlakeSizeVals : SetFlakeSize(v)
  \/ \E v \in OpacityVals : SetOpacity(v)
  \/ \E v \in DirectionVals : SetDirection(v)
  \/ \E v \in BOOLEAN : SetFog(v)
  \/ \E v \in FogOpacityVals : SetFogOpacity(v)

Spec == Init /\ [][Next]_vars

----------------------------------------------------------------------------
(* Properties of the life cycle *)

\* init() of s resolved false: navigator.gpu is missing, or renderer.init()
\* rejected
Failed(s) == s.stage = "false"

\* s holds no particle buffer, no compute pipeline and no mesh
NothingBuilt(s) ==
  /\ s.posBuffer = Null /\ s.velBuffer = Null
  /\ s.computeInit = Null /\ s.computeUpdate = Null
  /\ s.snowMesh = Null /\ s.fogMesh = Null
  /\ s.sceneMeshes = {}

\* this step dispatches no kernel, draws nothing and asks for no repaint
NoWork ==
  /\ lastFrame' # lastFrame => lastFrame'.log = << >>
  /\ repaint' => repaint
  /\ \A b \in DOMAIN spawns : spawns'[b] = spawns[b]
  /\ \A g \in GpuIds : gpus'[g].calls = << >>

\* C1: when navigator.gpu is missing or the acquisition of the context fails,
\* init() resolves false: the SnowGPU has no particle buffers, no compute
\* pipelines and no meshes, ready is false and stays false, and while it is
\* the layer's gpu every step, a render call included, spawns nothing, updates
\* nothing, draws nothing and asks for no repaint.
C1_FailedInitNoOp ==
  /\ [](\A g \in GpuIds : Failed(gpus[g]) => NothingBuilt(gpus[g]) /\ ~Ready(gpus[g]))
  /\ [][\A g \in GpuIds : Failed(gpus[g]) => Failed(gpus'[g])]_vars
  /\ [][gpu # 0 /\ Failed(gpus[gpu]) => NoWork]_vars

\* render was called on a layer whose gpu had failed to acquire the context,
\* after an earlier gpu of the layer had painted a frame
C1_Witness ==
  /\ hasGpu
  /\ lastFrame # Null /\ lastFrame.gpu = gpu /\ lastFrame.stage = "false"
  /\ lastFrame.log = << >>
  /\ lastInput # Null
  /\ ~repaint

\* C2: onRemove on a running layer disposes the snow mesh, the fog mesh and
\* the renderer and detaches the overlay before it returns; afterwards, as
\* long as the layer has no gpu, no step dispatches, draws or asks for a
\* repaint, and no frame is ever painted with a disposed renderer.
C2_RemoveReleases ==
  /\ [][(map /\ ~map' /\ gpu # 0 /\ Ready(gpus[gpu])) =>
          /\ gpus'[gpu].snowMesh.id \in gpus'[gpu].disposedMeshes
          /\ gpus'[gpu].fogDisposed
          /\ gpus'[gpu].rendererDisposed
          /\ overlayDiv \notin domOverlays'
          /\ ~observing'
          /\ gpu' = 0]_vars
  /\ [][gpu = 0 => NoWork]_vars
  /\ [][lastFrame' # lastFrame /\ lastFrame'.log # << >> =>
          ~gpus'[lastFrame'.gpu].rendererDisposed]_vars

\* a layer that painted a frame was removed; a setter and render were called
\* on it afterwards
C2_Witness ==
  /\ gpu = 0 /\ ~map
  /\ \E g \in GpuIds : gpus[g].rendererDisposed /\ gpus[g].initialized
  /\ lastFrame # Null /\ lastFrame.stage = "none" /\ lastFrame.log = << >>
  /\ lastInput # Null /\ lastInput.opts # opts

\* the calls of a frame that read or write particle buffers
OnBuffers == {"computeInit", "computeUpdate", "render"}

\* C3: setDensity(d) on an initialized SnowGPU makes the particle count
\* round(MIN + clamp(d, 0, 1) * (MAX - MIN)); when that differs from the
\* current count the old mesh leaves the scene and is disposed and fresh
\* buffers, kernels and a mesh of the new size replace the old ones; when it
\* does not differ nothing changes; a frame only ever dispatches and draws
\* the buffers its SnowGPU holds, never discarded ones.
C3_SetDensityRebuilds ==
  /\ [][\A d \in DensityVals :
          (SetDensity(d) /\ gpu # 0 /\ gpus[gpu].initialized) =>
            LET s == gpus[gpu]
                t == gpus'[gpu]
                c == Round(MIN_PARTICLE_COUNT * Scale
                             + Max(0, Min(Scale, d))
                                 * (MAX_PARTICLE_COUNT - MIN_PARTICLE_COUNT), Scale)
            IN /\ t.particleCount = c
               /\ IF c # s.particleCount
                  THEN /\ s.snowMesh.id \notin t.sceneMeshes
                       /\ s.snowMesh.id \in t.disposedMeshes
                       /\ t.posBuffer.id \notin 1 .. nextBuf
                       /\ t.posBuffer.id \in 1 .. nextBuf'
                       /\ t.velBuffer.id = t.posBuffer.id
                       /\ t.posBuffer.len = c /\ t.velBuffer.len = c
                       /\ t.computeInit = [buf |-> t.posBuffer.id, count |-> c]
                       /\ t.computeUpdate = [buf |-> t.posBuffer.id, count |-> c]
                       /\ t.snowMesh = [id |-> t.posBuffer.id, count |-> c]
                       /\ t.sceneMeshes = {t.posBuffer.id}
                       /\ BufOf(s) \in Discarded'
                  ELSE t = s /\ nextBuf' = nextBuf]_vars
  /\ [][\A snap \in Snapshots : Render(snap) =>
          \A i \in 1 .. Len(lastFrame'.log) :
            lastFrame'.log[i].op \in OnBuffers =>
              /\ lastFrame'.log[i].buf = BufOf(gpus'[gpu])
              /\ lastFrame'.log[i].buf \notin Discarded']_vars

\* buffers that a frame had spawned were replaced by setDensity, and the next
\* frame spawned the new ones
C3_Witness ==
  /\ \E b \in Discarded : spawns[b] = 1
  /\ lastFrame # Null /\ lastFrame.log # << >>
  /\ lastFrame.log[1].op = "computeInit"
  /\ lastFrame.log[1].buf = BufOf(gpus[lastFrame.gpu])

\* C4: the particle count of a SnowGPU is always within [MIN, MAX]; on a
\* ready gpu of the layer it is exactly MIN when the density is <= 0; and the
\* frames dispatch and draw that many particles.
C4_CountInRange ==
  /\ \A g \in GpuIds :
       gpus[g].particleCount \in MIN_PARTICLE_COUNT .. MAX_PARTICLE_COUNT
  /\ (gpu # 0 /\ Ready(gpus[gpu]) /\ opts.density <= 0) =>
       gpus[gpu].particleCount = MIN_PARTICLE_COUNT
  /\ (lastFrame # Null /\ lastFrame.log # << >>) =>
       \A i \in 1 .. Len(lastFrame.log) :
         lastFrame.log[i].op \in OnBuffers =>
           /\ lastFrame.log[i].n \in MIN_PARTICLE_COUNT .. MAX_PARTICLE_COUNT
           /\ lastInput.opts.density <= 0 => lastFrame.log[i].n = MIN_PARTICLE_COUNT

\* a frame was painted with MIN particles after setDensity took a negative
\* density
C4_Witness ==
  /\ lastFrame # Null /\ Len(lastFrame.log) = 4
  /\ lastInput.opts.density < 0
  /\ \A i \in 1 .. 3 : lastFrame.log[i].n = MIN_PARTICLE_COUNT

\* C5: the Spawn kernel is dispatched at most once on every allocation of the
\* particle buffers, and exactly once, ahead of the first Update and the first
\* draw, on every allocation that a frame updates or draws; an allocation that
\* is replaced before a frame is painted is never spawned.  The latch _initRan
\* is reset only when the particle count changes, and every new allocation on
\* an initialized SnowGPU comes with the latch reset.
C5_SpawnOncePerUsedAllocation ==
  /\ [](\A b \in 1 .. nextBuf : spawns[b] <= 1)
  /\ []((lastFrame # Null /\ lastFrame.log # << >>) =>
          \A i \in 1 .. Len(lastFrame.log) :
            /\ lastFrame.log[i].op \in OnBuffers => spawns[lastFrame.log[i].buf] = 1
            /\ lastFrame.log[i].op = "computeInit" => i = 1)
  /\ [][\A b \in 1 .. nextBuf : (b \in Discarded /\ spawns[b] = 0) => spawns'[b] = 0]_vars
  /\ [][\A g \in GpuIds :
          /\ (gpus[g].initRan /\ ~gpus'[g].initRan) =>
               gpus'[g].particleCount # gpus[g].particleCount
          /\ (BufOf(gpus'[g]) # BufOf(gpus[g])) => ~gpus'[g].initRan]_vars

\* the read of C5 that TLC refutes: Spawn is dispatched exactly once on every
\* allocation, so every allocation that has been replaced was spawned once
C5_SpawnOncePerAllocation ==
  \A b \in Discarded : spawns[b] = 1

\* the allocation of init() was replaced by the callback of then() without
\* ever being spawned; the next one was spawned by a frame and replaced by
\* setDensity; the one after that was spawned by the next frame
C5_Witness ==
  /\ \E b \in Discarded : spawns[b] = 0
  /\ \E b \in Discarded : spawns[b] = 1
  /\ lastFrame # Null /\ lastFrame.log # << >>
  /\ lastFrame.log[1].op = "computeInit"
  /\ spawns[BufOf(gpus[lastFrame.gpu])] = 1

\* C6: a frame of a running layer issues, in this order and once each: the
\* Spawn kernel if and only if it is pending, the Update kernel over the full
\* particle count, the draw, and triggerRepaint; every one of them sees the
\* uniforms derived from what this render call read from the camera, so a
\* Spawn uses this frame's spawn box.
C6_FrameOrder ==
  [][\A snap \in Snapshots :
       (Render(snap) /\ gpu # 0 /\ Ready(gpus[gpu]) /\ map) =>
         LET L == lastFrame'.log
             ops == [i \in 1 .. Len(L) |-> L[i].op]
             c == lngLatToMercator(snap.lng, snap.lat)
             h == (container.w * pxToMerc(snap.zoom) * 12) \div 10
         IN /\ ops = IF gpus[gpu].initRan
                     THEN <<"computeUpdate", "render", "triggerRepaint">>
                     ELSE <<"computeInit", "computeUpdate", "render", "triggerRepaint">>
            /\ repaint'
            /\ gpus'[gpu].initRan
            /\ \A i \in 1 .. Len(L) :
                 /\ L[i].u.center = c
                 /\ L[i].u.halfSpan = h
                 /\ L[i].u.altSpan = h \div 2
                 /\ L[i].u = L[1].u
                 /\ L[i].op \in OnBuffers => L[i].n = gpus[gpu].particleCount]_vars

\* a frame spawned fresh buffers into the box of the camera it read, which is
\* not the box a SnowGPU is constructed with, after an earlier frame had
\* spawned the buffers they replace
C6_Witness ==
  /\ lastFrame # Null /\ Len(lastFrame.log) = 4
  /\ lastFrame.log[1].op = "computeInit"
  /\ lastFrame.log[1].u.center = lngLatToMercator(90, 85)
  /\ lastFrame.log[1].u.halfSpan = (100 * pxToMerc(MaxZoom) * 12) \div 10
  /\ \E b \in Discarded : spawns[b] = 1
  /\ repaint

\* what a frame's uniforms and particle count are when they come from the
\* options o
FromOptions(c, o, zoom, dpr, f) ==
  /\ c.u.opacity = Max(0, Min(Scale, o.opacity))
  /\ c.u.fogOpacity = Max(0, Min(Scale, o.fogOpacity))
  /\ c.u.fogVisible = o.fog
  /\ c.u.radius = (o.flakeSize * pxToMerc(zoom) * dpr) \div 2
  /\ c.u.fallSpeed = (40 * o.intensity * pxToMerc(zoom) * FpsScale) \div (Scale * f)
  /\ c.u.windX = Sin(o.direction[1]) * ((o.direction[2] * pxToMerc(zoom) * FpsScale) \div f)
  /\ c.u.windY = Cos(o.direction[1]) * ((o.direction[2] * pxToMerc(zoom) * FpsScale) \div f)
  /\ c.op \in OnBuffers =>
       c.n = Round(MIN_PARTICLE_COUNT * Scale
                     + Max(0, Min(Scale, o.density))
                         * (MAX_PARTICLE_COUNT - MIN_PARTICLE_COUNT), Scale)

\* C7: whenever the setters were called (before onAdd, while init() is
\* pending, while the layer runs), a frame of the running layer uses the
\* values set last: every call of the frame sees the uniforms and the
\* particle count that follow from the layer's options; and setDensity is the
\* only setter that allocates buffers.
C7_SettersReachNextFrame ==
  /\ [][\A snap \in Snapshots :
          (Render(snap) /\ gpu # 0 /\ Ready(gpus[gpu]) /\ map) =>
            \A i \in 1 .. Len(lastFrame'.log) :
              FromOptions(lastFrame'.log[i], opts, snap.zoom, container.dpr,
                          lastInput'.fps)]_vars
  /\ [][(opts' # opts /\ opts'.density = opts.density) =>
          /\ nextBuf' = nextBuf
          /\ \A g \in GpuIds : BufOf(gpus'[g]) = BufOf(gpus[g])]_vars

\* a frame was painted after setOpacity took an opacity above 1 and
\* setDensity a density the options did not have
C7_Witness ==
  /\ lastFrame # Null /\ Len(lastFrame.log) = 4
  /\ lastInput.opts.opacity = 2 * Scale
  /\ lastInput.opts.density = (2 * Scale) \div 3
  /\ lastFrame.log[2].u.opacity = Scale
  /\ lastFrame.log[2].n = 136667

----------------------------------------------------------------------------
(* The compute kernels of _buildParticleSystem, on one particle.            *)
(*                                                                         *)
(* hash() of three/tsl maps an unsigned integer to a float of 0..1.  The    *)
(* model takes a hash value as a number k of 1/HashDen, 0 <= k <= HashDen,  *)
(* and draws the six hash values of a particle (the salts are drawn by      *)
(* Math.random() when the kernels are built, so a particle keeps its        *)
(* values for the life of the kernels) from all of them: a particle of the  *)
(* model stands for any instanceIndex.                                      *)

HashDen == 2
HashVals == 0 .. HashDen

\* the hash values of one particle: rx, ry, rz, rs of initFn and rx2, ry2 of
\* updateFn
HashRecs ==
  [rx : HashVals, ry : HashVals, rz : HashVals, rs : HashVals,
   rx2 : HashVals, ry2 : HashVals]

\* uCenter + r * (uHalfSpan * 2) - uHalfSpan, for a hash value r
InBox(c, r, halfSpan) == c + (r * (halfSpan * 2)) \div HashDen - halfSpan

\* randUint is drawn three times when initFn is built, each draw
\* floor(Math.random() * 0xffffff): what is added to instanceIndex for ry, rz
\* and rs.  Three draws that differ and are odd, two that are equal, one that
\* is 0
SaltRecs ==
  {[y |-> 1, z |-> 3, s |-> 5],
   [y |-> 2, z |-> 2, s |-> 7],
   [y |-> 0, z |-> 4, s |-> 6]}

\* what initFn adds to instanceIndex before hashing, for rx, ry, rz and rs:
\* rx is hash(instanceIndex), with nothing added
SpawnSalts(st) == <<0, st.y, st.z, st.s>>

\* hash is a function: two draws of initFn with the same input have the same
\* value
HashConsistent(r, st) ==
  LET in == SpawnSalts(st)
      v == <<r.rx, r.ry, r.rz, r.rs>>
  IN \A a, b \in 1 .. 4 : in[a] = in[b] => v[a] = v[b]

\* an init whose speed multiplier is the seed itself
initFnRawSpeed(u, r) ==
  [x |-> InBox(u.center.x, r.rx, u.halfSpan),
   y |-> InBox(u.center.y, r.ry, u.halfSpan),
   z |-> (r.rz * u.altSpan) \div HashDen,
   vx |-> 0, vy |-> 0,
   vz |-> 2 * r.rs,
   vw |-> r.rs]

\* initFn: what computeInit writes for a particle with hash values r.  vel.z,
\* rs * 0.5 + 0.5, is a number of 1/(2 * HashDen)
initFn(u, r) ==
  [x |-> InBox(u.center.x, r.rx, u.halfSpan),
   y |-> InBox(u.center.y, r.ry, u.halfSpan),
   z |-> (r.rz * u.altSpan) \div HashDen,
   vx |-> 0, vy |-> 0,
   vz |-> HashDen + r.rs,
   vw |-> r.rs]

\* uFallSpeed * vel.z
FallDelta(u, p) == (u.fallSpeed * p.vz) \div (2 * HashDen)

\* an update that adds the wind to the respawned position as well
updateFnWindOnRespawn(p, u, r) ==
  IF p.z - FallDelta(u, p) < 0
  THEN [p EXCEPT !.x = InBox(u.center.x, r.rx2, u.halfSpan) + u.windX,
                 !.y = InBox(u.center.y, r.ry2, u.halfSpan) + u.windY,
                 !.z = u.altSpan]
  ELSE [p EXCEPT !.x = p.x + u.windX, !.y = p.y + u.windY,
                 !.z = p.z - FallDelta(u, p)]

\* an update that keeps a falling particle inside the spawn box
updateFnClamped(p, u, r) ==
  IF p.z - FallDelta(u, p) < 0
  THEN [p EXCEPT !.x = InBox(u.center.x, r.rx2, u.halfSpan),
                 !.y = InBox(u.center.y, r.ry2, u.halfSpan),
                 !.z = u.altSpan]
  ELSE [p EXCEPT !.x = Max(u.center.x - u.halfSpan,
                           Min(u.center.x + u.halfSpan, p.x + u.windX)),
                 !.y = Max(u.center.y - u.halfSpan,
                           Min(u.center.y + u.halfSpan, p.y + u.windY)),
                 !.z = p.z - FallDelta(u, p)]

\* an update without the respawn branch
updateFnNoRespawn(p, u, r) ==
  [p EXCEPT !.x = p.x + u.windX, !.y = p.y + u.windY,
            !.z = p.z - FallDelta(u, p)]

\* an update that draws a new seed and speed multiplier on respawn
updateFnReseed(p, u, r) ==
  IF p.z - FallDelta(u, p) < 0
  THEN [p EXCEPT !.x = InBox(u.center.x, r.rx2, u.halfSpan),
                 !.y = InBox(u.center.y, r.ry2, u.halfSpan),
                 !.z = u.altSpan,
                 !.vz = HashDen + r.rx2, !.vw = r.rx2]
  ELSE [p EXCEPT !.x = p.x + u.windX, !.y = p.y + u.windY,
                 !.z = p.z - FallDelta(u, p)]

\* updateFn: what computeUpdate writes for particle p with hash values r
updateFn(p, u, r) ==
  LET x1 == p.x + u.windX
      y1 == p.y + u.windY
      z1 == p.z - FallDelta(u, p)
  IN IF z1 < 0
     THEN [p EXCEPT !.x = InBox(u.center.x, r.rx2, u.halfSpan),
                    !.y = InBox(u.center.y, r.ry2, u.halfSpan),
                    !.z = u.altSpan]
     ELSE [p EXCEPT !.x = x1, !.y = y1, !.z = z1]

\* the options the frames of SpecKernel run with: the defaults, the extreme
\* ones, and the defaults with no fall at all
KernelOptions ==
  {DefaultOptions, ExtremeOptions, [DefaultOptions EXCEPT !.intensity = 0]}

\* the uniforms render gives the kernels for what it reads from the host
KernelUniforms(snap, o) ==
  LET merc == lngLatToMercator(snap.lng, snap.lat) IN
  Uniforms(
    UpdateFallSpeed(
      UpdateWind(
        UpdateFlakeRadius(
          UpdateSpatial(NewSnowGPU, merc.x, merc.y, snap.zoom, 100),
          o.flakeSize, snap.zoom, 1),
        o.direction[1], o.direction[2], snap.zoom, 60 * FpsScale),
      o.intensity, snap.zoom, 60 * FpsScale))

\* a frame that draws the hash values of the particle anew
KFrameRedraw(snap, o) ==
  /\ kernel.frames < MaxKFrames
  /\ \E r \in {h \in HashRecs : h.rx = kernel.rx /\ HashConsistent(h, kernel.salts)} :
       LET u == KernelUniforms(snap, o)
           p0 == IF kernel.particle = Null THEN initFn(u, r)
                 ELSE kernel.particle
       IN kernel' = [kernel EXCEPT !.hashes = r, !.u = u, !.prev = p0,
                                   !.particle = updateFn(p0, u, r),
                                   !.frames = @ + 1,
                                   !.fresh = (kernel.particle = Null)]
  /\ UNCHANGED <<lifeVars, flake, webgl>>

\* the hash values the kernels of one build can have for the particle, when
\* hash(instanceIndex) is rx
BuildHashes(st, rx) ==
  {r \in HashRecs : r.rx = rx /\ HashConsistent(r, st)}

\* the kernels are built for a particle, with some salts; nothing is
\* dispatched yet.  rx is hash(instanceIndex); hashes are the other hash
\* values of this build, Null until a dispatch has read them.  fresh says
\* that the last frame dispatched computeInit.
InitKernel ==
  /\ LayerInit /\ hasGpu /\ opts = DefaultOptions
  /\ flake = Null
  /\ webgl = Null
  /\ \E st \in SaltRecs, rx \in HashVals :
       kernel = [salts |-> st, rx |-> rx, hashes |-> Null, u |-> Null,
                 particle |-> Null, prev |-> Null, frames |-> 0,
                 fresh |-> FALSE]

\* one frame of render, seen from the particle: the uniforms are set, runInit
\* dispatches computeInit if it has not run, frame dispatches computeUpdate.
\* prev keeps the particle as computeUpdate found it.
KFrame(snap, o) ==
  /\ kernel.frames < MaxKFrames
  /\ \E r \in (IF kernel.hashes = Null
               THEN BuildHashes(kernel.salts, kernel.rx)
               ELSE {kernel.hashes}) :
       LET u == KernelUniforms(snap, o)
           p0 == IF kernel.particle = Null THEN initFn(u, r)
                 ELSE kernel.particle
       IN kernel' = [kernel EXCEPT !.hashes = r, !.u = u, !.prev = p0,
                                   !.particle = updateFn(p0, u, r),
                                   !.frames = @ + 1,
                                   !.fresh = (kernel.particle = Null)]
  /\ UNCHANGED <<lifeVars, flake, webgl>>

\* _rebuildParticles, seen from the particle: _initRan is false again and
\* _buildParticleSystem makes new buffers and new kernels, with new draws of
\* randUint; the uniforms stay, and so does hash(instanceIndex).
KRebuild ==
  /\ \E st \in SaltRecs :
       kernel' = [kernel EXCEPT !.salts = st, !.hashes = Null,
                                !.particle = Null, !.prev = Null,
                                !.fresh = FALSE]
  /\ UNCHANGED <<lifeVars, flake, webgl>>

NextKernel ==
  \/ \E snap \in Snapshots, o \in KernelOptions : KFrame(snap, o)
  \/ KRebuild

SpecKernel == InitKernel /\ [][NextKernel]_vars

\* computeUpdate has run on the particle
Updated == kernel # Null /\ kernel.particle # Null

\* the respawn test of the last update fired: the altitude it found less the
\* fall is below 0
RespawnFired ==
  kernel.prev.z * (2 * HashDen) - kernel.u.fallSpeed * kernel.prev.vz < 0

\* C8: when the altitude before an update less fallSpeed * speedMul is below
\* 0, the particle is afterwards at altitude altSpan of this frame and at the
\* point of this frame's spawn box that its hash values pick, within
\* [center - halfSpan, center + halfSpan] on x and on y, with no wind added.
C8_RespawnInBox ==
  (Updated /\ RespawnFired) =>
    LET p == kernel.particle
        u == kernel.u
        r == kernel.hashes
    IN /\ p.z = u.altSpan
       /\ p.x >= u.center.x - u.halfSpan /\ p.x <= u.center.x + u.halfSpan
       /\ p.y >= u.center.y - u.halfSpan /\ p.y <= u.center.y + u.halfSpan
       /\ p.x * HashDen = u.center.x * HashDen + r.rx2 * 2 * u.halfSpan - u.halfSpan * HashDen
       /\ p.y * HashDen = u.center.y * HashDen + r.ry2 * 2 * u.halfSpan - u.halfSpan * HashDen

\* a particle was respawned by the update of its second frame, with the wind
\* blowing along x
C8_Witness ==
  /\ Updated /\ RespawnFired
  /\ kernel.u.windX # 0
  /\ kernel.particle.z = kernel.u.altSpan
  /\ kernel.frames = 2

\* C9: when the respawn test does not fire, the update takes fallSpeed *
\* speedMul off the altitude and adds windX to x and windY to y, and leaves
\* x and y unclamped and unwrapped, wherever that takes them.
C9_FallBetweenRespawns ==
  (Updated /\ ~RespawnFired) =>
    LET p == kernel.particle
        q == kernel.prev
        u == kernel.u
    IN /\ p.z * (2 * HashDen) = q.z * (2 * HashDen) - u.fallSpeed * q.vz
       /\ p.x = q.x + u.windX
       /\ p.y = q.y + u.windY
       /\ p.vz = q.vz

\* a particle fell without respawning while the wind carried it out of the
\* spawn box
C9_Witness ==
  /\ Updated /\ ~RespawnFired
  /\ kernel.u.fallSpeed > 0 /\ kernel.u.windX > 0
  /\ kernel.particle.z < kernel.prev.z
  /\ kernel.particle.x > kernel.u.center.x + kernel.u.halfSpan

----------------------------------------------------------------------------
(* The vertex stage: where a flake lands in normalized device coordinates.  *)
(* index.ts scales a unit sphere by uRadius around the particle and lets    *)
(* the camera, whose projection is MapLibre's main matrix, project it.  The *)
(* variant of index.ts that src/src/shaders/fog.frag.glsl carries projects  *)
(* the particle and adds an offset in normalized device coordinates.        *)
(* A coordinate of the result is a fraction [n, d].                         *)

Abs(a) == IF a < 0 THEN -a ELSE a

RECURSIVE Gcd(_, _)
Gcd(a, b) == IF b = 0 THEN Abs(a) ELSE Gcd(b, a % Abs(b))

\* a fraction in lowest terms, its denominator above 0
Norm(a) ==
  LET g == Gcd(a.n, a.d)
      sg == IF a.d < 0 THEN -1 ELSE 1
  IN [n |-> sg * (a.n \div g), d |-> sg * (a.d \div g)]

Rat(n, d) == Norm([n |-> n, d |-> d])
RatEq(a, b) == Norm(a) = Norm(b)
RatAdd(a, b) ==
  LET l == (a.d \div Gcd(a.d, b.d)) * b.d
  IN Rat(a.n * (l \div a.d) + b.n * (l \div b.d), l)
RatSub(a, b) == RatAdd(a, [n |-> -b.n, d |-> b.d])
RatAbs(a) == [n |-> Abs(a.n), d |-> Abs(a.d)]

Dot4(a, b) == a[1] * b[1] + a[2] * b[2] + a[3] * b[3] + a[4] * b[4]

\* a 4x4 matrix, by rows, times a vec4
MatVec(M, v) ==
  [x |-> Dot4(M.x, v), y |-> Dot4(M.y, v), z |-> Dot4(M.z, v), w |-> Dot4(M.w, v)]

\* the main matrix the host hands to render for a camera over center c at a
\* zoom, on a viewport of W by H css pixels: a point d pixels right of the
\* center lands at 2d/W, one d pixels below it at -2d/H.  A tilted camera
\* (tilt > 0) makes w grow to the north and with the altitude
HostMatrix(c, zoom, W, H, tilt) ==
  [x |-> <<4 * H, 0, 0, -4 * H * c.x>>,
   y |-> <<0, -4 * W, 0, 4 * W * c.y>>,
   z |-> <<0, 0, 1, 0>>,
   w |-> <<0, -tilt * H, tilt * H, 2 * pxToMerc(zoom) * W * H + tilt * H * c.y>>]

Tilts == {0, 1}

\* the vertices of the flake's geometry the extents are measured at
Locals == {<<1, 0, 0>>, <<0, 1, 0>>, <<0, 0, 0>>}

\* positionLocal.mul(uRadius).add(posBuffer.toAttribute()), projected by the
\* camera: the normalized device coordinates of the vertex at local
SphereVertex(M, pos, uRadius, local) ==
  LET clip == MatVec(M, <<local[1] * uRadius + pos.x, local[2] * uRadius + pos.y,
                          local[3] * uRadius + pos.z, 1>>)
  IN [x |-> Rat(clip.x, clip.w), y |-> Rat(clip.y, clip.w), z |-> Rat(clip.z, clip.w)]

\* the billboard positionNode: vec3(ndcX, ndcY, ndcZ) of the vertex at local
BillboardVertex(M, pos, uRadiusPx, uViewportW, uViewportH, local) ==
  LET clipCenter == MatVec(M, <<pos.x, pos.y, pos.z, 1>>)
      w == clipCenter.w
      rNDC_x == Rat(uRadiusPx * 2, uViewportW)
      rNDC_y == Rat(uRadiusPx * 2, uViewportH)
  IN [x |-> RatAdd(Rat(clipCenter.x, w), Rat(local[1] * rNDC_x.n, rNDC_x.d)),
      y |-> RatAdd(Rat(clipCenter.y, w), Rat(local[2] * rNDC_y.n, rNDC_y.d)),
      z |-> Rat(clipCenter.z, w)]

\* where the particles the vertex stage meets are: at the center of the spawn
\* box, on its edges and in a corner, on the ground and at the top
ProjPositions(c, halfSpan) ==
  {[x |-> c.x + dx * halfSpan, y |-> c.y + dy * halfSpan, z |-> dz * (halfSpan \div 2)] :
     dx \in {0, 1}, dy \in {-1, 0, 1}, dz \in {0, 1}}

\* what one draw reads: the camera, the viewport, the flake size
ProjInputs ==
  [snap : Snapshots, size : Sizes, flakeSize : {4, 6}, tilt : Tilts]

InitProj ==
  /\ LayerInit /\ hasGpu /\ opts = DefaultOptions
  /\ kernel = Null
  /\ flake = Null
  /\ webgl = Null

\* the half extents of a flake on x and y: how far the vertices at local
\* (1, 0, 0) and (0, 1, 0) land from the one at (0, 0, 0)
Extents(v) ==
  [x |-> RatAbs(RatSub(v[<<1, 0, 0>>].x, v[<<0, 0, 0>>].x)),
   y |-> RatAbs(RatSub(v[<<0, 1, 0>>].y, v[<<0, 0, 0>>].y))]

\* index.ts draws a flake: updateFlakeRadius sets uRadius from the flake size,
\* the zoom and the devicePixelRatio, frame copies the main matrix into the
\* camera, and the vertex stage places the sphere's vertices
ProjectSphere(in, pos) ==
  LET c == lngLatToMercator(in.snap.lng, in.snap.lat)
      M == HostMatrix(c, in.snap.zoom, in.size.w, in.size.h, in.tilt)
      s == UpdateFlakeRadius(NewSnowGPU, in.flakeSize, in.snap.zoom, in.size.dpr)
      v == [l \in Locals |-> SphereVertex(M, pos, s.uRadius, l)]
  IN /\ flake' = [by |-> "sphere", in |-> in, pos |-> pos,
                  pixelRadius |-> [n |-> in.flakeSize * in.size.dpr, d |-> 2],
                  extent |-> Extents(v)]
     /\ UNCHANGED <<lifeVars, kernel, webgl>>

\* the billboard variant draws a flake: updateFlakeRadiusPx sets uRadiusPx to
\* the flake size, frame sets uMainMatrix, uViewportW and uViewportH
ProjectBillboard(in, pos) ==
  LET c == lngLatToMercator(in.snap.lng, in.snap.lat)
      M == HostMatrix(c, in.snap.zoom, in.size.w, in.size.h, in.tilt)
      v == [l \in Locals |->
              BillboardVertex(M, pos, in.flakeSize, in.size.w, in.size.h, l)]
  IN /\ flake' = [by |-> "billboard", in |-> in, pos |-> pos,
                  pixelRadius |-> [n |-> in.flakeSize, d |-> 1],
                  extent |-> Extents(v)]
     /\ UNCHANGED <<lifeVars, kernel, webgl>>

NextProj ==
  \E in \in ProjInputs :
    \E pos \in ProjPositions(lngLatToMercator(in.snap.lng, in.snap.lat),
                             (in.size.w * pxToMerc(in.snap.zoom) * 12) \div 10) :
      \/ ProjectSphere(in, pos)
      \/ ProjectBillboard(in, pos)

SpecProj == InitProj /\ [][NextProj]_vars

\* C10: the half extent of a projected flake in normalized device
\* coordinates is pixelRadius * 2 / viewportWidth on x and pixelRadius * 2 /
\* viewportHeight on y, whatever the particle's position, the zoom and the
\* projection matrix.
C10_BillboardSizeInvariant ==
  flake # Null =>
    /\ RatEq(flake.extent.x, [n |-> flake.pixelRadius.n * 2,
                              d |-> flake.pixelRadius.d * flake.in.size.w])
    /\ RatEq(flake.extent.y, [n |-> flake.pixelRadius.n * 2,
                              d |-> flake.pixelRadius.d * flake.in.size.h])

----------------------------------------------------------------------------
(* Properties of the life cycle: options out of range, failures of init *)

\* a frame was painted by the last render call
Painted == lastFrame # Null /\ lastFrame.log # << >>

\* C11: every 0..1 option is clamped to [0, 1] before it reaches a uniform,
\* whether it came through the constructor or through a setter: in every
\* frame of a running layer the fall speed is 40 * clamp(intensity, 0, 1) *
\* pxToMerc / fps, and uOpacity and uFogOpacity lie in [0, 1].
C11_OptionsClamped ==
  Painted =>
    \A i \in 1 .. Len(lastFrame.log) :
      LET u == lastFrame.log[i].u IN
      /\ u.fallSpeed =
           (40 * Max(0, Min(Scale, lastInput.opts.intensity))
               * pxToMerc(lastInput.zoom) * FpsScale) \div (Scale * lastInput.fps)
      /\ u.opacity >= 0 /\ u.opacity <= Scale
      /\ u.fogOpacity >= 0 /\ u.fogOpacity <= Scale

\* C12: a failure to create the renderer's resources during init() leaves
\* init() as an error for the caller and is not turned into the outcome
\* "resolved false" of a missing capability: where navigator.gpu exists, no
\* init() resolves false.
C12_CreationFailurePropagates ==
  \A g \in GpuIds : hasGpu => gpus[g].stage # "false"

\* C13: once init() of a SnowGPU has resolved false, no step allocates a
\* particle buffer or a mesh for it or calls compute, render or setSize on
\* its renderer, whatever the host and the page call afterwards.
C13_FailedInitNoGpuWork ==
  [][\A g \in GpuIds :
       Failed(gpus[g]) =>
         /\ BufOf(gpus'[g]) = 0
         /\ gpus'[g].snowMesh = Null /\ gpus'[g].fogMesh = Null
         /\ gpus'[g].calls = << >>
         /\ (gpu = g /\ lastFrame' # lastFrame) => lastFrame'.log = << >>
         /\ gpus'[g].size = gpus[g].size]_vars

\* C14: the layer runs only after init() has completed with success.  A
\* SnowGPU is ready, and a frame is painted, only with init() resolved true;
\* while the layer has no gpu or the init() of its gpu is pending, a call of
\* the host or of the page (render and the setters among them) spawns,
\* updates and draws nothing, asks for no repaint and allocates no buffer.
C14_RunningOnlyAfterInit ==
  /\ [](\A g \in GpuIds : Ready(gpus[g]) => gpus[g].stage = "true")
  /\ [](Painted => lastFrame.stage = "true")
  /\ [][((gpu = 0 \/ gpus[gpu].stage = "pending") /\ calls' # calls) =>
          /\ NoWork
          /\ nextBuf' = nextBuf
          /\ gpu # 0 => BufOf(gpus'[gpu]) = 0]_vars

\* while init() was pending and nothing had been allocated yet, render was
\* called and setDensity changed the particle count
C14_Witness ==
  /\ gpu # 0 /\ gpus[gpu].stage = "pending"
  /\ lastFrame # Null /\ lastFrame.gpu = gpu /\ lastFrame.stage = "pending"
  /\ lastFrame.log = << >> /\ ~repaint
  /\ gpus[gpu].particleCount # DEFAULT_PARTICLE_COUNT
  /\ nextBuf = 0

C18_SpawnVolume ==
  /\ \A g \in GpuIds :
       /\ gpus[g].uAltSpan * 2 = gpus[g].uHalfSpan
       /\ gpus[g].uHalfSpan > 0
  /\ Painted =>
       \A i \in 1 .. Len(lastFrame.log) :
         LET u == lastFrame.log[i].u IN
         /\ u.center = lastInput.merc
         /\ u.halfSpan * 10 * Pow2(lastInput.zoom)
              = 12 * lastInput.cssW * Sub * Pow2(MaxZoom)
         /\ u.altSpan * 2 = u.halfSpan
  /\ \A z \in 0 .. MaxZoom - 1 : \A sz \in Sizes :
       LET near == UpdateSpatial(NewSnowGPU, 0, 0, z + 1, sz.w)
           far == UpdateSpatial(NewSnowGPU, 0, 0, z, sz.w)
       IN /\ near.uHalfSpan * 2 = far.uHalfSpan
          /\ near.uHalfSpan < far.uHalfSpan
          /\ near.uAltSpan < far.uAltSpan

\* a frame was painted at zoom 0 on a container that had been resized to 200
\* pixels: the box is 2^MaxZoom times the one of the deepest zoom
C18_Witness ==
  /\ Painted
  /\ lastInput.zoom = 0 /\ lastInput.cssW = 200
  /\ lastFrame.log[1].u.center = lngLatToMercator(0, 0)
  /\ lastFrame.log[1].u.halfSpan = Pow2(MaxZoom) * 240 * Sub
  /\ lastFrame.log[1].u.altSpan = Pow2(MaxZoom) * 120 * Sub

----------------------------------------------------------------------------
(* Properties of the kernels: what computeInit writes, what computeUpdate   *)
(* keeps.                                                                   *)

\* the last frame dispatched computeInit: prev is what it wrote
Spawned == kernel # Null /\ kernel.fresh

\* what computeInit writes apart from the ends of the intervals: vx and vy
\* are 0, the speed multiplier is 0.5 + 0.5 * seed, x, y and the altitude are
\* the points that the hash values pick in the spawn volume of the uniforms
\* of the dispatch
SpawnedFromUniforms ==
  LET p == kernel.prev
      u == kernel.u
      r == kernel.hashes
  IN /\ p.vx = 0 /\ p.vy = 0
     /\ p.vw = r.rs
     /\ p.vz = HashDen + p.vw
     /\ p.vz >= HashDen /\ p.vz <= 2 * HashDen
     /\ p.x >= u.center.x - u.halfSpan
     /\ p.y >= u.center.y - u.halfSpan
     /\ p.z >= 0
     /\ p.vw >= 0
     /\ p.x * HashDen = u.center.x * HashDen + r.rx * 2 * u.halfSpan - u.halfSpan * HashDen
     /\ p.y * HashDen = u.center.y * HashDen + r.ry * 2 * u.halfSpan - u.halfSpan * HashDen
     /\ p.z * HashDen = r.rz * u.altSpan

C17_DistinctOddSalts ==
  kernel # Null =>
    LET in == SpawnSalts(kernel.salts)
    IN /\ \A a, b \in 1 .. 4 : a # b => in[a] # in[b]
       /\ \A a \in 1 .. 4 : in[a] % 2 = 1

\* C19: after every dispatch of computeUpdate the altitude of the particle
\* is at least 0, whatever the fall speed: an altitude below 0 is replaced
\* by altSpan, which is not negative.
C19_AltitudeNotNegative ==
  /\ Updated => kernel.particle.z >= 0
  /\ (Updated /\ RespawnFired) => kernel.particle.z = kernel.u.altSpan
  /\ (kernel # Null /\ kernel.u # Null) => kernel.u.altSpan >= 0

\* the update found the particle on the ground, took a fall of more than 0
\* off and left the particle at altSpan
C19_Witness ==
  /\ Updated /\ RespawnFired
  /\ kernel.prev.z = 0
  /\ kernel.u.fallSpeed > 0
  /\ kernel.particle.z = kernel.u.altSpan
  /\ kernel.particle.z > 0

\* C20: computeUpdate leaves vel as it found it: the speed multiplier and
\* the seed that computeInit wrote stay through frames and respawns, and
\* differ only after a rebuild has made computeInit run again.
C20_VelocityKept ==
  /\ [](Updated =>
          /\ kernel.particle.vx = kernel.prev.vx
          /\ kernel.particle.vy = kernel.prev.vy
          /\ kernel.particle.vz = kernel.prev.vz
          /\ kernel.particle.vw = kernel.prev.vw
          /\ kernel.particle.vw = kernel.hashes.rs
          /\ kernel.particle.vz = HashDen + kernel.hashes.rs)
  /\ [][(kernel # Null /\ kernel.particle # Null /\ kernel'.particle # Null) =>
          /\ kernel'.particle.vx = kernel.particle.vx
          /\ kernel'.particle.vy = kernel.particle.vy
          /\ kernel'.particle.vz = kernel.particle.vz
          /\ kernel'.particle.vw = kernel.particle.vw]_vars

\* a particle in a frame after the one of its computeInit was respawned and
\* has the seed and the speed multiplier it had, neither the least
C20_Witness ==
  /\ Updated /\ RespawnFired /\ ~kernel.fresh
  /\ kernel.particle.vw = kernel.prev.vw
  /\ kernel.particle.vw > 0
  /\ kernel.particle.vz = HashDen + kernel.particle.vw

----------------------------------------------------------------------------
(* Properties of the life cycle: buffers and frames, removal and the        *)
(* callback of init, the frame rate.                                        *)

\* C22: a frame dispatches computeUpdate and draws only on particle buffers
\* that computeInit has been dispatched on, in this frame ahead of them or in
\* an earlier one, and _initRan is true of a SnowGPU only while the buffers
\* it holds are spawned; every frame leaves _initRan true.
C22_NoFrameOnUnspawnedBuffers ==
  /\ [](Painted =>
          \A i \in 1 .. Len(lastFrame.log) :
            LET c == lastFrame.log[i] IN
            (c.op \in {"computeUpdate", "render"} /\ c.buf # 0) =>
              /\ spawns[c.buf] >= 1
              /\ \A j \in 1 .. Len(lastFrame.log) :
                   (lastFrame.log[j].op = "computeInit" /\ lastFrame.log[j].buf = c.buf)
                     => j < i)
  /\ [](\A g \in GpuIds :
          gpus[g].initRan => (BufOf(gpus[g]) # 0 /\ spawns[BufOf(gpus[g])] >= 1))
  /\ [][(lastFrame' # lastFrame /\ lastFrame'.log # << >>) =>
          /\ gpus'[gpu].initRan
          /\ \E i \in 1 .. Len(lastFrame'.log) :
               /\ lastFrame'.log[i].op = "computeUpdate"
               /\ lastFrame'.log[i].buf = BufOf(gpus'[gpu])]_vars

\* a frame ran on buffers that setDensity allocated after an earlier frame
\* had spawned the buffers before them: it dispatched computeInit, then
\* computeUpdate, on the new ones
C22_Witness ==
  /\ Painted
  /\ lastFrame.log[1].op = "computeInit"
  /\ lastFrame.log[2].op = "computeUpdate"
  /\ lastFrame.log[2].buf = lastFrame.log[1].buf
  /\ \E b \in 1 .. nextBuf : b < lastFrame.log[1].buf /\ spawns[b] = 1
  /\ spawns[lastFrame.log[1].buf] = 1

\* what s created is disposed: the renderer, the snow mesh it holds, the
\* meshes in its scene and the fog mesh
Released(s) ==
  /\ s.renderer => s.rendererDisposed
  /\ s.snowMesh # Null => s.snowMesh.id \in s.disposedMeshes
  /\ s.sceneMeshes \subseteq s.disposedMeshes
  /\ s.fogMesh # Null => s.fogDisposed

\* C23: when onRemove runs between onAdd and the end of init(), then once
\* init() has run to its end nothing that the SnowGPU created stays
\* undisposed, and no frame is ever painted by a SnowGPU that the layer has
\* let go of.
C23_RemovedWhilePendingReleased ==
  /\ [](\A g \in 1 .. nGpu :
          (g # gpu /\ gpus[g].stage \in {"true", "false"}) => Released(gpus[g]))
  /\ [][(lastFrame' # lastFrame /\ lastFrame'.log # << >>) =>
          (lastFrame'.gpu = gpu /\ gpu # 0 /\ ~gpus'[gpu].rendererDisposed)]_vars

\* C24: the callback that onAdd passes to init().then never reads through a
\* this.gpu that onRemove has set to null and never calls a SnowGPU other
\* than the one whose init() it follows: when init() of g resolves true the
\* callback raises no error and leaves every other SnowGPU as it was.
C24_CallbackOnOwnGpu ==
  /\ [](~thenError)
  /\ [][\A g \in GpuIds :
          (gpus[g].stage = "pending" /\ gpus'[g].stage = "true") =>
            /\ gpu \in {0, g}
            /\ \A h \in GpuIds \ {g} : gpus'[h] = gpus[h]]_vars

----------------------------------------------------------------------------
(* A host that paints only when a repaint is pending.  MapLibre asks for a  *)
(* repaint of its own when the layer is added; after that, in this          *)
(* specification, only the layer does, through map.triggerRepaint().        *)

\* the repaint the host asks for when it adds the layer, before init() has
\* settled
AddRepaint ==
  /\ map /\ gpu # 0 /\ gpus[gpu].stage = "pending"
  /\ ~repaint
  /\ repaint' = TRUE
  /\ UNCHANGED <<hostVars, gpus, nGpu, layerVars, opts, timeVars, lastFrame,
                 lastInput, bufVars, calls, thenError, kernel, flake, webgl>>

\* render, called by the host for a pending repaint
IdleRender(snap) == repaint /\ Render(snap)

NextIdle ==
  \/ OnAdd
  \/ AddRepaint
  \/ \E g \in GpuIds, rejected \in BOOLEAN : InitSettle(g, rejected)
  \/ \E snap \in Snapshots : IdleRender(snap)
  \/ OnRemove
  \/ \E d \in DensityVals : SetDensity(d)
  \/ \E v \in IntensityVals : SetIntensity(v)
  \/ \E v \in FlakeSizeVals : SetFlakeSize(v)
  \/ \E v \in OpacityVals : SetOpacity(v)
  \/ \E v \in DirectionVals : SetDirection(v)
  \/ \E v \in BOOLEAN : SetFog(v)
  \/ \E v \in FogOpacityVals : SetFogOpacity(v)

\* the host paints a frame whenever a repaint stays pending
SpecIdle ==
  Init /\ [][NextIdle]_vars /\ WF_vars(\E snap \in Snapshots : IdleRender(snap))

\* init() of the layer's SnowGPU has resolved true
Running == gpu # 0 /\ Ready(gpus[gpu])

\* C25: once init() has resolved true on an attached layer a frame is
\* painted, even if the host asks for no repaint of its own after onAdd,
\* unless the layer is removed first (or the calls of the model are used
\* up); and every painted frame asks for the next one.
C25_AnimationStarts ==
  /\ [](Running => <>((Painted /\ lastFrame.gpu = gpu) \/ gpu = 0 \/ calls = MaxCalls))
  /\ [][(lastFrame' # lastFrame /\ lastFrame'.log # << >>) => repaint']_vars

\* C26: whenever a SnowGPU holds particle buffers its scene has exactly one
\* snow mesh, the one it holds, and the count of the mesh, the lengths of
\* the position and velocity buffers and the dispatch sizes of computeInit
\* and computeUpdate all equal particleCount; a step that changes the count
\* of a SnowGPU that holds buffers gives it new buffers and disposes the old
\* mesh.
C26_OneMeshOfParticleCount ==
  /\ [](\A g \in GpuIds :
          LET s == gpus[g] IN
          s.posBuffer # Null =>
            /\ s.snowMesh # Null /\ s.velBuffer # Null
            /\ s.computeInit # Null /\ s.computeUpdate # Null
            /\ s.sceneMeshes = {s.snowMesh.id}
            /\ s.snowMesh.id = s.posBuffer.id /\ s.velBuffer.id = s.posBuffer.id
            /\ s.computeInit.buf = s.posBuffer.id /\ s.computeUpdate.buf = s.posBuffer.id
            /\ s.snowMesh.count = s.particleCount
            /\ s.posBuffer.len = s.particleCount
            /\ s.velBuffer.len = s.particleCount
            /\ s.computeInit.count = s.particleCount
            /\ s.computeUpdate.count = s.particleCount)
  /\ [][\A g \in GpuIds :
          (gpus[g].posBuffer # Null /\ gpus'[g].particleCount # gpus[g].particleCount) =>
            /\ BufOf(gpus'[g]) > nextBuf
            /\ gpus[g].snowMesh.id \in gpus'[g].disposedMeshes
            /\ ~gpus'[g].initRan]_vars

\* on a layer that has painted a frame, a SnowGPU holds the third buffers
\* allocated or later ones, of the least count, with an older mesh disposed
C26_Witness ==
  \E g \in GpuIds :
    /\ gpus[g].posBuffer # Null
    /\ gpus[g].posBuffer.id >= 3
    /\ gpus[g].particleCount = MIN_PARTICLE_COUNT
    /\ gpus[g].snowMesh.count = MIN_PARTICLE_COUNT
    /\ Cardinality(gpus[g].disposedMeshes) >= 1
    /\ lastInput # Null

----------------------------------------------------------------------------
(* Properties of the kernels: the altitude and the spawn box, the respawn.  *)

\* C27: after every frame the altitude of the particle is at most altSpan of
\* that frame, whatever the zoom of the frames before.
C27_AltitudeWithinSpan ==
  Updated => kernel.particle.z <= kernel.u.altSpan

----------------------------------------------------------------------------
(* The WebGL variant of the layer, which src/src/shaders/fog.frag.glsl      *)
(* carries: it draws into the GL context of the host.  A GL object is a     *)
(* positive number, null is 0, an object of the host is negative.           *)

MAX_PARTICLES == 15000

\* the state of the context that render reads or writes: the current
\* program, the ARRAY_BUFFER binding, the depth write mask, DEPTH_TEST,
\* BLEND, and the indices of the enabled vertex attribute arrays
HostGlStates ==
  {[program |-> 0, arrayBuffer |-> 0, depthMask |-> TRUE, depthTest |-> FALSE,
    blend |-> FALSE, attribs |-> {}],
   [program |-> -1, arrayBuffer |-> -1, depthMask |-> TRUE, depthTest |-> TRUE,
    blend |-> TRUE, attribs |-> {1}],
   [program |-> -1, arrayBuffer |-> 0, depthMask |-> FALSE, depthTest |-> TRUE,
    blend |-> FALSE, attribs |-> {}]}

\* what getAttribLocation answers for the attributes of the snow program and
\* for a_pos of the fog program; -1 for an attribute that is not active
AttribLocs ==
  {[snow |-> <<0, 1>>, fog |-> 0],
   [snow |-> <<0, -1>>, fog |-> 0],
   [snow |-> <<1, 0>>, fog |-> -1]}

\* the densities the layer is constructed with or set to
GlDensities == {0, Scale \div 2, 2 * Scale}

\* how onAdd ends: it returns, or buildProgram throws for the snow program
\* or for the fog program
AddOutcomes == {"ok", "snowThrows", "fogThrows"}

\* the layer after its constructor
NewGlLayer(density, fog) ==
  [density |-> density, fog |-> fog,
   program |-> 0, buffer |-> 0, particleCount |-> 0,
   fogProgram |-> 0, fogBuffer |-> 0, fogAttribLoc |-> -1,
   attribLocations |-> << >>,
   map |-> FALSE, gl |-> FALSE]

\* a run of GL calls: the context, the objects created so far, the draw
\* calls made and the attribute arrays enabled by the run
GlRun(g, nextId) == [gl |-> g, nextId |-> nextId, draws |-> << >>, enabled |-> {}]

GlUseProgram(c, p) == [c EXCEPT !.gl.program = p]
GlBindBuffer(c, b) == [c EXCEPT !.gl.arrayBuffer = b]
GlDepthMask(c, flag) == [c EXCEPT !.gl.depthMask = flag]
GlSetDepthTest(c, flag) == [c EXCEPT !.gl.depthTest = flag]
GlEnableBlend(c) == [c EXCEPT !.gl.blend = TRUE]
GlEnableVertexAttribArray(c, loc) ==
  [c EXCEPT !.gl.attribs = @ \cup {loc}, !.enabled = @ \cup {loc}]
GlDisableVertexAttribArray(c, loc) == [c EXCEPT !.gl.attribs = @ \ {loc}]
GlDrawArrays(c, what, count) ==
  [c EXCEPT !.draws = Append(@, [what |-> what, count |-> count,
                                 program |-> c.gl.program,
                                 buffer |-> c.gl.arrayBuffer])]
\* deleteBuffer: a buffer that is bound is unbound
GlDeleteBuffer(c, b) ==
  IF c.gl.arrayBuffer = b THEN [c EXCEPT !.gl.arrayBuffer = 0] ELSE c

\* the particle count buildParticleBuffer derives from the density
GlCountFor(density) == Round(Clamp01(density) * MAX_PARTICLES, Scale)

\* buildParticleBuffer(gl) on layer L in run c: the pair of the layer and
\* the run afterwards
BuildParticleBuffer(L, c) ==
  LET n == GlCountFor(L.density)
      L1 == [L EXCEPT !.particleCount = n]
  IN IF n = 0 THEN [layer |-> L1, run |-> c]
     ELSE LET c1 == IF L1.buffer # 0 THEN GlDeleteBuffer(c, L1.buffer) ELSE c
              id == c1.nextId + 1
          IN [layer |-> [L1 EXCEPT !.buffer = id],
              run |-> GlBindBuffer([c1 EXCEPT !.nextId = id], id)]

\* the enable and the disable loops of render over attribLocations
RECURSIVE EnableAttribs(_, _, _)
EnableAttribs(c, locs, i) ==
  IF i > Len(locs) THEN c
  ELSE EnableAttribs(IF locs[i] < 0 THEN c ELSE GlEnableVertexAttribArray(c, locs[i]),
                     locs, i + 1)

RECURSIVE DisableAttribs(_, _, _)
DisableAttribs(c, locs, i) ==
  IF i > Len(locs) THEN c
  ELSE DisableAttribs(IF locs[i] < 0 THEN c ELSE GlDisableVertexAttribArray(c, locs[i]),
                      locs, i + 1)

\* the fog pass of render
DrawFog(L, c) ==
  IF L.fog /\ L.fogProgram # 0 /\ L.fogBuffer # 0
  THEN LET c1 == GlBindBuffer(
                   GlUseProgram(GlDepthMask(GlSetDepthTest(c, FALSE), FALSE),
                                L.fogProgram),
                   L.fogBuffer)
       IN IF L.fogAttribLoc >= 0
          THEN GlDisableVertexAttribArray(
                 GlDrawArrays(GlEnableVertexAttribArray(c1, L.fogAttribLoc), "fog", 4),
                 L.fogAttribLoc)
          ELSE c1
  ELSE c

\* the snow pass of render, up to drawArrays
DrawSnow(L, c) ==
  GlDrawArrays(
    EnableAttribs(
      GlBindBuffer(
        GlUseProgram(GlDepthMask(GlSetDepthTest(c, FALSE), FALSE), L.program),
        L.buffer),
      L.attribLocations, 1),
    "snow", L.particleCount)

\* a render that restores the program and the buffer and leaves the depth
\* state as the snow pass set it
GlRenderDepthLeft(L, c) ==
  LET prev == c.gl
      c1 == DrawSnow(L, DrawFog(L, GlEnableBlend(c)))
      c2 == DisableAttribs(c1, L.attribLocations, 1)
  IN GlUseProgram(GlBindBuffer(c2, prev.arrayBuffer), prev.program)

\* render past its guard: save, blend, fog, snow, restore
GlRender(L, c) ==
  LET prev == c.gl
      c1 == DrawSnow(L, DrawFog(L, GlEnableBlend(c)))
      c2 == DisableAttribs(c1, L.attribLocations, 1)
      c3 == GlSetDepthTest(GlDepthMask(c2, prev.depthMask), prev.depthTest)
  IN GlUseProgram(GlBindBuffer(c3, prev.arrayBuffer), prev.program)

\* the guard of render
GlRenderReturnsEarly(L) ==
  L.program = 0 \/ L.buffer = 0 \/ L.particleCount = 0 \/ ~L.map

\* a layer as constructed and a context in its initial state
InitGL ==
  /\ LayerInit /\ hasGpu /\ opts = DefaultOptions
  /\ kernel = Null
  /\ flake = Null
  /\ \E d \in GlDensities, fog \in BOOLEAN :
       webgl = [layer |-> NewGlLayer(d, fog),
                gl |-> [program |-> 0, arrayBuffer |-> 0, depthMask |-> TRUE,
                        depthTest |-> FALSE, blend |-> FALSE, attribs |-> {}],
                nextId |-> 0, calls |-> 0, renders |-> 0, last |-> Null,
                repaint |-> FALSE]

\* what the handlers of the layer share: one more call
GlCall ==
  /\ webgl.calls < MaxCalls
  /\ UNCHANGED <<lifeVars, kernel, flake>>

\* onAdd(map, gl)
GLOnAdd(outcome, locs) ==
  /\ GlCall
  /\ ~webgl.layer.map
  /\ LET L0 == [webgl.layer EXCEPT !.map = TRUE, !.gl = TRUE]
         c0 == GlRun(webgl.gl, webgl.nextId)
     IN IF outcome = "snowThrows"
        THEN webgl' = [webgl EXCEPT !.layer = L0, !.calls = @ + 1]
        ELSE LET L1 == [L0 EXCEPT !.program = c0.nextId + 1,
                                  !.attribLocations = locs.snow]
                 c1 == [c0 EXCEPT !.nextId = @ + 1]
             IN IF outcome = "fogThrows"
                THEN webgl' = [webgl EXCEPT !.layer = L1, !.nextId = c1.nextId,
                                            !.calls = @ + 1]
                ELSE LET L2 == [L1 EXCEPT !.fogProgram = c1.nextId + 1,
                                          !.fogAttribLoc = locs.fog,
                                          !.fogBuffer = c1.nextId + 2]
                         c2 == GlBindBuffer([c1 EXCEPT !.nextId = @ + 2], L2.fogBuffer)
                         b == BuildParticleBuffer(L2, c2)
                     IN webgl' = [webgl EXCEPT !.layer = b.layer, !.gl = b.run.gl,
                                               !.nextId = b.run.nextId,
                                               !.calls = @ + 1]

\* render(gl, args): the host calls it for a frame, which uses up the
\* repaint that was pending
GLRender ==
  /\ GlCall
  /\ LET L == webgl.layer
         c == GlRender(L, GlRun(webgl.gl, webgl.nextId))
     IN IF GlRenderReturnsEarly(L)
        THEN webgl' = [webgl EXCEPT !.calls = @ + 1, !.renders = @ + 1,
                                    !.repaint = FALSE,
                                    !.last = [n |-> webgl.renders + 1, early |-> TRUE,
                                              entry |-> webgl.gl, draws |-> << >>,
                                              enabled |-> {}, fog |-> L.fog]]
        ELSE webgl' = [webgl EXCEPT !.calls = @ + 1, !.renders = @ + 1,
                                    !.gl = c.gl,
                                    !.repaint = TRUE,
                                    !.last = [n |-> webgl.renders + 1, early |-> FALSE,
                                              entry |-> webgl.gl, draws |-> c.draws,
                                              enabled |-> c.enabled, fog |-> L.fog]]

\* onRemove(map, gl)
GLOnRemove ==
  /\ GlCall
  /\ webgl.layer.map
  /\ LET L == webgl.layer
         c0 == GlRun(webgl.gl, webgl.nextId)
         c1 == IF L.buffer # 0 THEN GlDeleteBuffer(c0, L.buffer) ELSE c0
         c2 == IF L.fogBuffer # 0 THEN GlDeleteBuffer(c1, L.fogBuffer) ELSE c1
     IN webgl' = [webgl EXCEPT !.calls = @ + 1, !.gl = c2.gl,
                               !.layer = [L EXCEPT !.program = 0, !.buffer = 0,
                                                   !.fogProgram = 0, !.fogBuffer = 0,
                                                   !.gl = FALSE, !.map = FALSE,
                                                   !.attribLocations = << >>]]

\* setDensity(density)
GLSetDensity(density) ==
  /\ GlCall
  /\ LET L == [webgl.layer EXCEPT !.density = density]
         b == IF L.gl THEN BuildParticleBuffer(L, GlRun(webgl.gl, webgl.nextId))
              ELSE [layer |-> L, run |-> GlRun(webgl.gl, webgl.nextId)]
     IN webgl' = [webgl EXCEPT !.calls = @ + 1, !.layer = b.layer, !.gl = b.run.gl,
                               !.nextId = b.run.nextId,
                               !.repaint = @ \/ L.map]

\* setFog(enabled)
GLSetFog(enabled) ==
  /\ GlCall
  /\ webgl' = [webgl EXCEPT !.calls = @ + 1, !.layer.fog = enabled,
                            !.repaint = @ \/ webgl.layer.map]

\* the host draws its own layers and leaves the context in a state of its own
HostDraw(h) ==
  /\ webgl.gl # h
  /\ webgl' = [webgl EXCEPT !.gl = h]
  /\ UNCHANGED <<lifeVars, kernel, flake>>

NextGL ==
  \/ \E outcome \in AddOutcomes, locs \in AttribLocs : GLOnAdd(outcome, locs)
  \/ GLRender
  \/ GLOnRemove
  \/ \E d \in GlDensities : GLSetDensity(d)
  \/ \E v \in BOOLEAN : GLSetFog(v)
  \/ \E h \in HostGlStates : HostDraw(h)

SpecGL == InitGL /\ [][NextGL]_vars

----------------------------------------------------------------------------
(* Properties of the WebGL variant *)

\* this step is a call of render
GlRendered == webgl # Null /\ webgl'.renders = webgl.renders + 1

\* C21: a render call that draws leaves the current program, the
\* ARRAY_BUFFER binding, the depth write mask and DEPTH_TEST as it found
\* them and leaves disabled every vertex attribute array that it enabled; a
\* render call that returns at its guard leaves the whole context as it was.
C21_RenderRestoresGlState ==
  [][GlRendered =>
       IF webgl'.last.early
       THEN webgl'.gl = webgl.gl /\ webgl'.last.draws = << >>
       ELSE /\ webgl'.last.draws # << >>
            /\ webgl'.gl.program = webgl.gl.program
            /\ webgl'.gl.arrayBuffer = webgl.gl.arrayBuffer
            /\ webgl'.gl.depthMask = webgl.gl.depthMask
            /\ webgl'.gl.depthTest = webgl.gl.depthTest
            /\ webgl'.last.enabled \cap webgl'.gl.attribs = {}]_vars

\* render drew the fog and the snow in a context that the host had left
\* with a program and a buffer of its own, DEPTH_TEST enabled and the depth
\* mask set, and gave all of them back
C21_Witness ==
  /\ webgl # Null /\ webgl.last # Null /\ ~webgl.last.early
  /\ Len(webgl.last.draws) = 2
  /\ webgl.last.enabled = {0, 1}
  /\ webgl.last.entry.program = -1 /\ webgl.last.entry.arrayBuffer = -1
  /\ webgl.last.entry.depthTest /\ webgl.last.entry.depthMask
  /\ webgl.gl.program = -1 /\ webgl.gl.arrayBuffer = -1
  /\ webgl.gl.depthTest /\ webgl.gl.depthMask
  /\ webgl.gl.attribs = {}

\* C30: while the layer is on the map with the fog enabled, onAdd having
\* returned, every render call draws the fog overlay and asks for the next
\* repaint, whatever the density, 0 included.
C30_FogDrawnAtAnyDensity ==
  [][(GlRendered /\ webgl.layer.map /\ webgl.layer.fog
        /\ webgl.layer.program # 0 /\ webgl.layer.fogProgram # 0
        /\ webgl.layer.fogBuffer # 0 /\ webgl.layer.fogAttribLoc >= 0) =>
       /\ \E i \in 1 .. Len(webgl'.last.draws) : webgl'.last.draws[i].what = "fog"
       /\ webgl'.repaint]_vars

====
